---- MODULE Spec2Model ----
(***************************************************************************)
(* Model of rainavyas/nlp-residue-OOD: src/trainer.py (Trainer) and        *)
(* src/system_loader.py (SystemLoader, EnsembleLoader).                    *)
(*                                                                         *)
(* The neural network is a black box.  Its parameters are an abstract      *)
(* value w (0 = freshly constructed, 1..NumWeights = values a training     *)
(* pass can leave), and a forward pass is a deterministic function of the  *)
(* parameters and the example.  Probabilities are integers in tenths.      *)
(* The program is single threaded: at most one call is in progress.        *)
(***************************************************************************)
EXTENDS Integers, Sequences, FiniteSets, TLC

\* ------------------------------------------------------------- bounds
NumSeeds == 2        \* seed sub-directories under the ensemble path
NumEx == 2           \* examples per split
NumWeights == 4      \* distinct parameter values a training pass may reach
MaxEpochs == 6       \* largest args.epochs
MaxSplit == 2        \* most examples in the dev and the test split load_data yields
MaxBsz == 3          \* largest batch handed to model_output

Runs == 1..NumSeeds
DataNames == {"sst"}
Modes == {"dev", "test"}
Keys == DataNames \X Modes
Weights == 0..NumWeights
Trained == 1..NumWeights
\* parameter values found in the run directories the loaders start from
SavedWeights == {1, 2}

VARIABLES
  disk,      \* [Runs -> [Keys -> file]] the PredictionRecord files of each run directory
  models,    \* [Runs -> file] models/base.pt of each run directory
  seeds,     \* EnsembleLoader.seeds: the run of each SystemLoader, in listing order
  ldr,       \* [Runs -> object] attributes of the SystemLoader of each run
  stack,     \* frames of the loader calls in progress, innermost last
  ret,       \* value (or error) handed back by the last call that ended
  tr,        \* the Trainer object and the locals of Trainer.train
  nsetup,    \* [Runs -> Nat] completed SystemLoader.set_up_helpers runs
  nwrites,   \* [Runs -> [Keys -> Nat]] save_probs calls
  nfwd,      \* [Runs -> Nat] forward passes made by the loader of each run
  last,      \* [Runs -> [Keys -> value]] what the latest finished load_probs returned
  data,      \* [DataNames -> <<train, dev, test>>] what load_data yields
  batch      \* the batch handed to model_output, with the logits the model gives on it

vars == <<disk, models, seeds, ldr, stack, ret, tr, nsetup, nwrites, nfwd, last, data, batch>>

\* ------------------------------------------------------------- data
\* sample ids of a split, in dataset order
SplitIds(d, m) == [i \in 1..NumEx |-> i]

\* the test split as Trainer.train sees it under args.lim
LimIds(d, lim) == SubSeq(SplitIds(d, "test"), 1, lim)

Offset(m) == IF m = "dev" THEN 1 ELSE 0

\* logits of the model with parameters w on example i of split m
Logits(w, m, i) == <<(w * i + 3) % 4, (w + i + Offset(m) + 1) % 4>>

\* softmax over two logits whose difference is dlt, in tenths; the logits are in
\* units of ln 1.5, so the first probability is 1.5^dlt / (1 + 1.5^dlt), rounded
Sigmoid10(dlt) ==
  CASE dlt <= -3 -> 2
    [] dlt = -2 -> 3
    [] dlt = -1 -> 4
    [] dlt = 0 -> 5
    [] dlt = 1 -> 6
    [] dlt = 2 -> 7
    [] OTHER -> 8

Softmax(y) == <<Sigmoid10(y[1] - y[2]), 10 - Sigmoid10(y[1] - y[2])>>

\* y = F.softmax(y) when the last dimension has more than one entry
Probabilities(y) == IF Len(y) > 1 THEN Softmax(y) ELSE y

\* mutant: indices counted from 1
ArgmaxFromOne(v) ==
  CHOOSE j \in 1..Len(v) :
    /\ \A l \in 1..Len(v) : v[l] <= v[j]
    /\ \A l \in 1..(j - 1) : v[l] < v[j]

\* np.argmax: the first index (from 0) of a maximal entry
Argmax(v) ==
  (CHOOSE j \in 1..Len(v) :
     /\ \A l \in 1..Len(v) : v[l] <= v[j]
     /\ \A l \in 1..(j - 1) : v[l] < v[j]) - 1

\* ------------------------------------------------------------- files
NoFile == [exists |-> FALSE, rec |-> <<>>]
File(rec) == [exists |-> TRUE, rec |-> rec]
NoModel == [exists |-> FALSE, w |-> 0]
ModelFile(w) == [exists |-> TRUE, w |-> w]

\* mutant: the existence test never finds the file
ProbsExistsNever(r, k) == FALSE

\* DirHelper.probs_exists
ProbsExists(r, k) == disk[r][k].exists

Range(s) == {s[j] : j \in 1..Len(s)}

\* the dict a complete _probs pass with parameters w builds over the ids
ProbsOf(w, m, ids) == [id \in Range(ids) |-> Probabilities(Logits(w, m, id))]

\* probabilties[sample_id] = y : a later entry for the same id replaces the earlier
DictPut(dict, id, y) == (id :> y) @@ dict

\* ------------------------------------------------------------- values
NoRet == [kind |-> "none", val |-> <<>>]
Value(kind, val) == [kind |-> kind, val |-> val]
Error(what) == [kind |-> "error", val |-> what]

\* ------------------------------------------------------------- loader objects
ArgsDevice == "cuda:0"    \* m_args.device as persisted in model_args.json
NoLoader ==
  [helpers |-> "unset", w |-> 0, modelDev |-> "none", batcherDev |-> "none",
   device |-> "none", evalMode |-> FALSE]

\* Trainer.set_up_helpers(args) followed by a load_model that raises
HelpersPartial ==
  [helpers |-> "partial", w |-> 0, modelDev |-> "cpu", batcherDev |-> "cpu",
   device |-> ArgsDevice, evalMode |-> FALSE]

\* SystemLoader.set_up_helpers run to its end on weights w
HelpersReady(w) ==
  [helpers |-> "ready", w |-> w, modelDev |-> "cuda:0", batcherDev |-> "cuda:0",
   device |-> "cuda:0", evalMode |-> TRUE]

\* Trainer.to: model.to(device), batcher.to(device)
To(obj, device) == [obj EXCEPT !.modelDev = device, !.batcherDev = device]

\* mutant: save_model leaves the model on the CPU
SaveModelStaysOnCpu(obj) == [obj EXCEPT !.modelDev = "cpu"]

\* what save_model does to the object: model.to("cpu"), then model.to(self.device)
SaveModel(obj) == [[obj EXCEPT !.modelDev = "cpu"] EXCEPT !.modelDev = obj.device]

\* ------------------------------------------------------------- frames
Frame(op, pc, r, k) ==
  [op |-> op, pc |-> pc, r |-> r, k |-> k, miss |-> FALSE, i |-> 1,
   probs |-> <<>>, acc |-> <<>>]

\* mutant: load_probs without the cache test, it always sets up and generates
LoadProbsFrameNoCheck(r, k) ==
  [Frame("load_probs", "setup", r, k) EXCEPT !.miss = TRUE]

\* entry of SystemLoader.load_probs: the probs_exists test selects the path
LoadProbsFrame(r, k) ==
  [Frame("load_probs", IF ProbsExists(r, k) THEN "load" ELSE "setup", r, k)
     EXCEPT !.miss = ~ProbsExists(r, k)]

Top == stack[Len(stack)]
Running(op, pc) == stack # <<>> /\ Top.op = op /\ Top.pc = pc
SetTop(f) == [stack EXCEPT ![Len(stack)] = f]
Pop == SubSeq(stack, 1, Len(stack) - 1)
Idle == stack = <<>> /\ tr.pc \in {"off", "done"} /\ ret = NoRet
Loaded == seeds # <<>>

Perms(S) == {p \in [1..Cardinality(S) -> S] : \A a \in S : \E j \in DOMAIN p : p[j] = a}

\* The caller has taken what the finished call handed back (or caught what it
\* raised) and goes on; nothing of the result stays with the program.
Resume ==
  /\ stack = <<>>
  /\ ret # NoRet
  /\ ret' = NoRet
  /\ UNCHANGED <<disk, models, seeds, ldr, stack, tr, nsetup, nwrites, nfwd, last, data, batch>>

\* mutant: every SystemLoader sets its helpers up when it is constructed
NewEnsembleLoaderEager ==
  /\ Idle /\ ~Loaded
  /\ \E order \in Perms(Runs) : seeds' = order
  /\ ldr' = [r \in Runs |-> IF models[r].exists THEN HelpersReady(models[r].w)
                                                ELSE HelpersPartial]
  /\ nsetup' = [r \in Runs |-> IF models[r].exists THEN nsetup[r] + 1 ELSE nsetup[r]]
  /\ UNCHANGED <<disk, models, stack, ret, tr, nwrites, nfwd, last, data, batch>>

\* ------------------------------------------------------------- EnsembleLoader.__init__
\* One SystemLoader per seed sub-directory, in the order os.listdir yields them.
\* SystemLoader.__init__ only binds the directory.
NewEnsembleLoader ==
  /\ Idle /\ ~Loaded
  /\ \E order \in Perms(Runs) : seeds' = order
  /\ ldr' = [r \in Runs |-> NoLoader]
  /\ UNCHANGED <<disk, models, stack, ret, tr, nsetup, nwrites, nfwd, last, data, batch>>

\* ------------------------------------------------------------- SystemLoader.load_probs
CallLoadProbs(r, k) ==
  /\ Idle /\ Loaded
  /\ stack' = <<LoadProbsFrame(r, k)>>
  /\ ret' = NoRet
  /\ UNCHANGED <<disk, models, seeds, ldr, tr, nsetup, nwrites, nfwd, last, data, batch>>

\* mutant: a missing weights file is passed over and the new model is used
SetUpHelpersLenient ==
  /\ Running("load_probs", "setup")
  /\ LET r == Top.r IN
       /\ ldr' = [ldr EXCEPT ![r] = HelpersReady(models[r].w)]
       /\ nsetup' = [nsetup EXCEPT ![r] = @ + 1]
       /\ stack' = SetTop([Top EXCEPT !.pc = "probs"])
       /\ ret' = ret
  /\ UNCHANGED <<disk, models, seeds, tr, nwrites, nfwd, last, data, batch>>

\* set_up_helpers: load_args, Trainer.set_up_helpers, load_model, eval, to('cuda:0')
SetUpHelpers ==
  /\ Running("load_probs", "setup")
  /\ LET r == Top.r IN
     IF models[r].exists
       THEN /\ ldr' = [ldr EXCEPT ![r] = HelpersReady(models[r].w)]
            /\ nsetup' = [nsetup EXCEPT ![r] = @ + 1]
            /\ stack' = SetTop([Top EXCEPT !.pc = "probs"])
            /\ ret' = ret
       ELSE /\ ldr' = [ldr EXCEPT ![r] = HelpersPartial]
            /\ nsetup' = nsetup
            /\ stack' = <<>>
            /\ ret' = Error("load_model")
  /\ UNCHANGED <<disk, models, seeds, tr, nwrites, nfwd, last, data, batch>>

\* _probs up to its loop: eval mode, to(device), the split's batches of one
ProbsBegin ==
  /\ Running("load_probs", "probs")
  /\ LET r == Top.r IN
     ldr' = [ldr EXCEPT ![r] = To([ldr[r] EXCEPT !.evalMode = TRUE], ldr[r].device)]
  /\ stack' = SetTop([Top EXCEPT !.pc = IF Len(SplitIds(Top.k[1], Top.k[2])) = 0
                                          THEN "save" ELSE "batch",
                                 !.i = 1, !.probs = <<>>])
  /\ UNCHANGED <<disk, models, seeds, ret, tr, nsetup, nwrites, nfwd, last, data, batch>>

\* mutant: the loop of _probs leaves out the last example
ProbsBatchStopsEarly ==
  /\ Running("load_probs", "batch")
  /\ LET r == Top.r
         ids == SplitIds(Top.k[1], Top.k[2])
         id == ids[Top.i]
         y == Probabilities(Logits(ldr[r].w, Top.k[2], id))
     IN /\ stack' = SetTop([Top EXCEPT !.probs = DictPut(Top.probs, id, y),
                                       !.acc = Append(Top.acc, id),
                                       !.i = Top.i + 1,
                                       !.pc = IF Top.i < Len(ids) - 1 THEN "batch" ELSE "save"])
        /\ nfwd' = [nfwd EXCEPT ![r] = @ + 1]
  /\ UNCHANGED <<disk, models, seeds, ldr, ret, tr, nsetup, nwrites, last, data, batch>>

\* one iteration of the loop of _probs: forward pass on example i
ProbsBatch ==
  /\ Running("load_probs", "batch")
  /\ LET r == Top.r
         ids == SplitIds(Top.k[1], Top.k[2])
         id == ids[Top.i]
         y == Probabilities(Logits(ldr[r].w, Top.k[2], id))
     IN /\ stack' = SetTop([Top EXCEPT !.probs = DictPut(Top.probs, id, y),
                                       !.acc = Append(Top.acc, id),
                                       !.i = Top.i + 1,
                                       !.pc = IF Top.i < Len(ids) THEN "batch" ELSE "save"])
        /\ nfwd' = [nfwd EXCEPT ![r] = @ + 1]
  /\ UNCHANGED <<disk, models, seeds, ldr, ret, tr, nsetup, nwrites, last, data, batch>>

\* generate_probs after _probs returned: dir.save_probs
SaveProbs ==
  /\ Running("load_probs", "save")
  /\ disk' = [disk EXCEPT ![Top.r][Top.k] = File(Top.probs)]
  /\ nwrites' = [nwrites EXCEPT ![Top.r][Top.k] = @ + 1]
  /\ stack' = SetTop([Top EXCEPT !.pc = "load"])
  /\ UNCHANGED <<models, seeds, ldr, ret, tr, nsetup, nfwd, last, data, batch>>

\* probs = self.dir.load_probs(data_name, mode); return probs
LoadReturn ==
  /\ Running("load_probs", "load")
  /\ IF disk[Top.r][Top.k].exists
       THEN /\ ret' = Value("probs", disk[Top.r][Top.k].rec)
            /\ stack' = Pop
       ELSE /\ ret' = Error("load_probs")
            /\ stack' = <<>>
  /\ last' = [last EXCEPT ![Top.r][Top.k] = ret']
  /\ UNCHANGED <<disk, models, seeds, ldr, tr, nsetup, nwrites, nfwd, data, batch>>

\* ------------------------------------------------------------- SystemLoader.load_preds
CallLoadPreds(r, k) ==
  /\ Idle /\ Loaded
  /\ stack' = <<Frame("load_preds", "call", r, k)>>
  /\ ret' = NoRet
  /\ UNCHANGED <<disk, models, seeds, ldr, tr, nsetup, nwrites, nfwd, last, data, batch>>

\* probs = self.load_probs(data_name, mode)
PredsCall ==
  /\ Running("load_preds", "call")
  /\ stack' = Append(SetTop([Top EXCEPT !.pc = "argmax"]), LoadProbsFrame(Top.r, Top.k))
  /\ UNCHANGED <<disk, models, seeds, ldr, ret, tr, nsetup, nwrites, nfwd, last, data, batch>>

\* preds[k] = int(np.argmax(probs)) for every item; return preds
PredsArgmax ==
  /\ Running("load_preds", "argmax")
  /\ ret' = Value("preds", [id \in DOMAIN ret.val |-> Argmax(ret.val[id])])
  /\ stack' = Pop
  /\ UNCHANGED <<disk, models, seeds, ldr, tr, nsetup, nwrites, nfwd, last, data, batch>>

LoaderNext ==
  \/ \E r \in Runs, k \in Keys : CallLoadProbs(r, k)
  \/ \E r \in Runs, k \in Keys : CallLoadPreds(r, k)
  \/ SetUpHelpers
  \/ ProbsBegin
  \/ ProbsBatch
  \/ SaveProbs
  \/ LoadReturn
  \/ PredsCall
  \/ PredsArgmax

\* ------------------------------------------------------------- EnsembleLoader
RECURSIVE GCD(_, _)
GCD(a, b) == IF b = 0 THEN a ELSE GCD(b, a % b)

\* an exact quotient a / b (b > 0), in lowest terms
Rat(a, b) == [num |-> a \div GCD(a, b), den |-> b \div GCD(a, b)]

RECURSIVE SumAt(_, _, _)
SumAt(vs, c, n) == IF n = 0 THEN 0 ELSE SumAt(vs, c, n - 1) + vs[n][c]

\* mutant: the first vector of the list in place of the mean over the list
MeanFirst(vs) == [c \in 1..Len(vs[1]) |-> Rat(vs[1][c], 1)]

\* mutant: np.sum in place of np.mean
MeanSum(vs) == [c \in 1..Len(vs[1]) |-> Rat(SumAt(vs, c, Len(vs)), 1)]

\* np.mean(probs, axis=0) over a list of equally long vectors
Mean(vs) == [c \in 1..Len(vs[1]) |-> Rat(SumAt(vs, c, Len(vs)), Len(vs))]

\* a <= b for exact quotients with positive denominators
RatLeq(a, b) == a.num * b.den <= b.num * a.den

\* np.argmax on a vector np.mean produced
ArgmaxMean(v) ==
  (CHOOSE j \in 1..Len(v) :
     /\ \A l \in 1..Len(v) : RatLeq(v[l], v[j])
     /\ \A l \in 1..(j - 1) : ~RatLeq(v[j], v[l])) - 1

\* mutant: only asks that every seed covers the ids of the first
KeysAgreeFirstCovered(seed_probs) ==
  \A j \in 1..Len(seed_probs) : DOMAIN seed_probs[1] \subseteq DOMAIN seed_probs[j]

\* assert all([i.keys() == conv_ids for i in seed_probs]), conv_ids = seed_probs[0].keys()
KeysAgree(seed_probs) ==
  \A j \in 1..Len(seed_probs) : DOMAIN seed_probs[j] = DOMAIN seed_probs[1]

\* the loop of lines 121-126 over conv_ids
Ensemble(seed_probs) ==
  [id \in DOMAIN seed_probs[1] |->
     Mean([j \in 1..Len(seed_probs) |-> seed_probs[j][id]])]

CallEnsLoadProbs(k) ==
  /\ Idle /\ Loaded
  /\ stack' = <<Frame("ens_load_probs", "seeds", seeds[1], k)>>
  /\ ret' = NoRet
  /\ UNCHANGED <<disk, models, seeds, ldr, tr, nsetup, nwrites, nfwd, last, data, batch>>

\* seed.load_probs(data_name, mode) for the next seed of self.seeds
EnsSeedCall ==
  /\ Running("ens_load_probs", "seeds")
  /\ stack' = Append(SetTop([Top EXCEPT !.pc = "collect"]),
                     LoadProbsFrame(seeds[Top.i], Top.k))
  /\ UNCHANGED <<disk, models, seeds, ldr, ret, tr, nsetup, nwrites, nfwd, last, data, batch>>

\* mutant: the assertion is evaluated as soon as the first record is in
EnsCollectChecksAtOnce ==
  /\ Running("ens_load_probs", "collect")
  /\ stack' = SetTop([Top EXCEPT !.acc = Append(Top.acc, ret.val),
                                 !.i = Top.i + 1,
                                 !.pc = "check"])
  /\ UNCHANGED <<disk, models, seeds, ldr, ret, tr, nsetup, nwrites, nfwd, last, data, batch>>

\* the list comprehension takes the seed's record and moves on
EnsCollect ==
  /\ Running("ens_load_probs", "collect")
  /\ stack' = SetTop([Top EXCEPT !.acc = Append(Top.acc, ret.val),
                                 !.i = Top.i + 1,
                                 !.pc = IF Top.i < Len(seeds) THEN "seeds" ELSE "check"])
  /\ UNCHANGED <<disk, models, seeds, ldr, ret, tr, nsetup, nwrites, nfwd, last, data, batch>>

\* the assertion on the key sets
EnsCheck ==
  /\ Running("ens_load_probs", "check")
  /\ IF KeysAgree(Top.acc)
       THEN /\ stack' = SetTop([Top EXCEPT !.pc = "mean"])
            /\ ret' = ret
       ELSE /\ stack' = <<>>
            /\ ret' = Error("assert")
  /\ UNCHANGED <<disk, models, seeds, ldr, tr, nsetup, nwrites, nfwd, last, data, batch>>

\* the averaging loop and return ensemble
EnsMean ==
  /\ Running("ens_load_probs", "mean")
  /\ ret' = Value("ensemble", Ensemble(Top.acc))
  /\ stack' = Pop
  /\ UNCHANGED <<disk, models, seeds, ldr, tr, nsetup, nwrites, nfwd, last, data, batch>>

CallLoadSeedPreds(k) ==
  /\ Idle /\ Loaded
  /\ stack' = <<Frame("load_seed_preds", "seeds", seeds[1], k)>>
  /\ ret' = NoRet
  /\ UNCHANGED <<disk, models, seeds, ldr, tr, nsetup, nwrites, nfwd, last, data, batch>>

\* mutant: every element of the list is asked of the first seed
SeedPredsCallFirstSeed ==
  /\ Running("load_seed_preds", "seeds")
  /\ stack' = Append(SetTop([Top EXCEPT !.pc = "collect"]),
                     Frame("load_preds", "call", seeds[1], Top.k))
  /\ UNCHANGED <<disk, models, seeds, ldr, ret, tr, nsetup, nwrites, nfwd, last, data, batch>>

\* seed.load_preds(data_name, mode) for the next seed of self.seeds
SeedPredsCall ==
  /\ Running("load_seed_preds", "seeds")
  /\ stack' = Append(SetTop([Top EXCEPT !.pc = "collect"]),
                     Frame("load_preds", "call", seeds[Top.i], Top.k))
  /\ UNCHANGED <<disk, models, seeds, ldr, ret, tr, nsetup, nwrites, nfwd, last, data, batch>>

\* the list comprehension takes the seed's labels; after the last seed, returns the list
SeedPredsCollect ==
  /\ Running("load_seed_preds", "collect")
  /\ IF Top.i < Len(seeds)
       THEN /\ stack' = SetTop([Top EXCEPT !.acc = Append(Top.acc, ret.val),
                                           !.i = Top.i + 1, !.pc = "seeds"])
            /\ ret' = ret
       ELSE /\ stack' = Pop
            /\ ret' = Value("seed_preds", Append(Top.acc, ret.val))
  /\ UNCHANGED <<disk, models, seeds, ldr, tr, nsetup, nwrites, nfwd, last, data, batch>>

\* EnsembleLoader inherits load_preds from SystemLoader; self.load_probs in it
\* is EnsembleLoader.load_probs
CallEnsLoadPreds(k) ==
  /\ Idle /\ Loaded
  /\ stack' = <<Frame("ens_load_preds", "call", seeds[1], k)>>
  /\ ret' = NoRet
  /\ UNCHANGED <<disk, models, seeds, ldr, tr, nsetup, nwrites, nfwd, last, data, batch>>

\* probs = self.load_probs(data_name, mode)
EnsPredsCall ==
  /\ Running("ens_load_preds", "call")
  /\ stack' = Append(SetTop([Top EXCEPT !.pc = "argmax"]),
                     Frame("ens_load_probs", "seeds", seeds[1], Top.k))
  /\ UNCHANGED <<disk, models, seeds, ldr, ret, tr, nsetup, nwrites, nfwd, last, data, batch>>

\* preds[k] = int(np.argmax(probs)) for every item of the ensemble; return preds
EnsPredsArgmax ==
  /\ Running("ens_load_preds", "argmax")
  /\ ret' = Value("preds", [id \in DOMAIN ret.val |-> ArgmaxMean(ret.val[id])])
  /\ stack' = Pop
  /\ UNCHANGED <<disk, models, seeds, ldr, tr, nsetup, nwrites, nfwd, last, data, batch>>

EnsNext ==
  \/ \E k \in Keys : CallEnsLoadProbs(k)
  \/ EnsSeedCall
  \/ EnsCollect
  \/ EnsCheck
  \/ EnsMean
  \/ \E k \in Keys : CallLoadSeedPreds(k)
  \/ SeedPredsCall
  \/ SeedPredsCollect
  \/ \E k \in Keys : CallEnsLoadPreds(k)
  \/ EnsPredsCall
  \/ EnsPredsArgmax

\* ------------------------------------------------------------- load_labels, load_inputs
\* A mode string is the sequence of its parts, "_" being a part of its own:
\* 'dev_test' is <<"dev", "_", "test">>.
RECURSIVE StrSplit(_)
\* mode.split('_')
StrSplit(s) ==
  IF "_" \notin Range(s) THEN <<s>>
  ELSE LET j == CHOOSE j \in 1..Len(s) : s[j] = "_" /\ \A l \in 1..(j - 1) : s[l] # "_"
       IN <<SubSeq(s, 1, j - 1)>> \o StrSplit(SubSeq(s, j + 1, Len(s)))

\* split_index = {'train':0, 'dev':1, 'test':2}, as positions from 1
SplitIndexKeys == {<<"train">>, <<"dev">>, <<"test">>}
SplitIndex(key) == CASE key = <<"train">> -> 1 [] key = <<"dev">> -> 2 [] key = <<"test">> -> 3

\* {k: ex[field] for k, ex in enumerate(eval_data)}
Enumerate(eval_data, field) ==
  [i \in 0..(Len(eval_data) - 1) |-> eval_data[i + 1][field]]

RECURSIVE Repeated(_, _)
\* eval_data after n rounds of eval_data += part
Repeated(part, n) == IF n = 0 THEN <<>> ELSE Repeated(part, n - 1) \o part

LoadLabels(data_name, mode) ==
  IF "_" \notin Range(mode)
    THEN IF mode \in SplitIndexKeys
           THEN Value("labels", Enumerate(data[data_name][SplitIndex(mode)], "label"))
           ELSE Error("KeyError")
    ELSE LET splits == StrSplit(mode)
         IN IF Len(splits) > 0 /\ mode \notin SplitIndexKeys
              THEN Error("KeyError")
              ELSE Value("labels",
                         Enumerate(Repeated(data[data_name][SplitIndex(mode)], Len(splits)),
                                   "label"))

LoadInputs(data_name, mode) ==
  IF mode \in SplitIndexKeys
    THEN Value("inputs", Enumerate(data[data_name][SplitIndex(mode)], "text"))
    ELSE Error("KeyError")

ModeStrings ==
  {<<"train">>, <<"dev">>, <<"test">>, <<"dev", "_", "test">>, <<"test", "_", "dev">>,
   <<"train", "_", "dev", "_", "test">>}

\* the static methods are called on the class; r = 0 stands for no instance
CallLoadLabels(data_name, mode) ==
  /\ Idle
  /\ stack' = <<Frame("load_labels", "body", 0, <<data_name, mode>>)>>
  /\ ret' = NoRet
  /\ UNCHANGED <<disk, models, seeds, ldr, tr, nsetup, nwrites, nfwd, last, data, batch>>

LoadLabelsBody ==
  /\ Running("load_labels", "body")
  /\ ret' = LoadLabels(Top.k[1], Top.k[2])
  /\ stack' = Pop
  /\ UNCHANGED <<disk, models, seeds, ldr, tr, nsetup, nwrites, nfwd, last, data, batch>>

CallLoadInputs(data_name, mode) ==
  /\ Idle
  /\ stack' = <<Frame("load_inputs", "body", 0, <<data_name, mode>>)>>
  /\ ret' = NoRet
  /\ UNCHANGED <<disk, models, seeds, ldr, tr, nsetup, nwrites, nfwd, last, data, batch>>

LoadInputsBody ==
  /\ Running("load_inputs", "body")
  /\ ret' = LoadInputs(Top.k[1], Top.k[2])
  /\ stack' = Pop
  /\ UNCHANGED <<disk, models, seeds, ldr, tr, nsetup, nwrites, nfwd, last, data, batch>>

DataNext ==
  \/ \E d \in DataNames, mode \in ModeStrings : CallLoadLabels(d, mode)
  \/ LoadLabelsBody
  \/ \E d \in DataNames, mode \in ModeStrings : CallLoadInputs(d, mode)
  \/ LoadInputsBody

\* examples as load_data yields them, and the splits of at most n of them
Examples == [label : {0, 1}, text : {"a", "b"}]
SplitsUpTo(n) == UNION {[1..l -> Examples] : l \in 0..n}
\* the data set the loaders and the trainer run on: NumEx examples per split
FixedData ==
  [d \in DataNames |->
     [s \in 1..3 |-> [i \in 1..NumEx |-> [label |-> i % 2, text |-> "a"]]]]
NoBatch == [labels |-> <<>>, y |-> <<>>]

\* ------------------------------------------------------------- run directories
\* What a finished training run leaves in its directory, as <<kind, w, lim>>:
\* nothing (epochs = 0), models/base.pt with parameters w (args.save), or the
\* test record of parameters w over the first lim examples.
DirKinds ==
  {<<"new", 0, 0>>}
  \cup {<<"saved", w, 0>> : w \in SavedWeights}
  \cup {<<"probs", w, lim>> : w \in SavedWeights, lim \in 1..NumEx}

DirModel(t) == IF t[1] = "saved" THEN ModelFile(t[2]) ELSE NoModel
DirTest(t) ==
  IF t[1] = "probs" THEN File(ProbsOf(t[2], "test", LimIds("sst", t[3]))) ELSE NoFile

\* The names of the seed directories carry no meaning and EnsembleLoader takes
\* them in any order, so one assignment per renaming is enough.
KindRank(t) ==
  (CASE t[1] = "new" -> 0 [] t[1] = "saved" -> 1 [] OTHER -> 2) * 100 + t[2] * 10 + t[3]
UpToRenaming(dirs) == \A r \in Runs, q \in Runs : r < q => KindRank(dirs[r]) <= KindRank(dirs[q])

\* ------------------------------------------------------------- Trainer
InitBestLoss == 10000
Patience == 3
TrainRun == 1             \* the run directory the Trainer was constructed on

\* system_eval is deterministic in the parameters (eval mode, no shuffle)
DevAcc(w) ==
  CASE w = 1 -> 0
    [] w = 2 -> 50
    [] w = 3 -> 55
    [] w = 4 -> 60
    [] OTHER -> 55
DevPerf(w) == [loss |-> 100 - 10 * w, acc |-> DevAcc(w)]
TestPerf(w) == [loss |-> 95 - 10 * w, acc |-> 40 + 5 * w]
Unbound == [loss |-> -1, acc |-> -1]

\* Trainer.__init__: fresh model on the cpu, self.device = m_args.device
TrainerNew ==
  [pc |-> "ready", run |-> TrainRun, epochs |-> 0, save |-> FALSE, lim |-> 0,
   epoch |-> 0, best |-> <<-1, InitBestLoss, 0>>, perf |-> Unbound,
   test_perf |-> Unbound, w |-> 0, modelDev |-> "cpu", batcherDev |-> "cpu",
   device |-> ArgsDevice, evalMode |-> FALSE,
   ws |-> <<>>, passes |-> 0, evals |-> 0, saves |-> 0]

TrainerOff == [TrainerNew EXCEPT !.pc = "off"]

\* lines 41-50: save_args, the data, the optimizer, best_epoch, to(device), loop entry
TrainCall(epochs, save, lim) ==
  /\ tr.pc = "ready"
  /\ tr' = To([tr EXCEPT !.pc = IF epochs > 0 THEN "train" ELSE "end",
                         !.epochs = epochs, !.save = save, !.lim = lim,
                         !.epoch = 0, !.best = <<-1, InitBestLoss, 0>>],
              tr.device)
  /\ UNCHANGED <<disk, models, seeds, ldr, stack, ret, nsetup, nwrites, nfwd, last, data, batch>>

\* lines 52-72: one shuffled pass of gradient steps leaves new parameters
TrainPass ==
  /\ tr.pc = "train"
  /\ \E w \in Trained :
       tr' = [tr EXCEPT !.pc = "dev", !.w = w, !.evalMode = FALSE,
                        !.ws = Append(tr.ws, w), !.passes = tr.passes + 1]
  /\ UNCHANGED <<disk, models, seeds, ldr, stack, ret, nsetup, nwrites, nfwd, last, data, batch>>

\* lines 75-78: perf = system_eval(dev)
DevEval ==
  /\ tr.pc = "dev"
  /\ tr' = [tr EXCEPT !.pc = "test", !.evalMode = TRUE, !.perf = DevPerf(tr.w),
                      !.evals = tr.evals + 1]
  /\ UNCHANGED <<disk, models, seeds, ldr, stack, ret, nsetup, nwrites, nfwd, last, data, batch>>

\* line 81: test_perf = system_eval(test)
TestEval ==
  /\ tr.pc = "test"
  /\ tr' = [tr EXCEPT !.pc = "improve", !.test_perf = TestPerf(tr.w),
                      !.evals = tr.evals + 1]
  /\ UNCHANGED <<disk, models, seeds, ldr, stack, ret, nsetup, nwrites, nfwd, last, data, batch>>

\* mutant: the accuracy is compared with the initial best, not the current one
ImprovedOverInitial(acc, best) == acc > 0

\* mutant: a tie counts as an improvement
ImprovedOrEqual(acc, best) == acc >= best[3]

\* line 84: perf.acc > best_epoch[2]
Improved(acc, best) == acc > best[3]

\* mutant: the write is made in every epoch, improving or not
ImproveWritesAlways ==
  /\ tr.pc = "improve"
  /\ LET key == <<"sst", "test">>
         best == IF Improved(tr.perf.acc, tr.best)
                   THEN <<tr.epoch, tr.perf.loss, tr.perf.acc>> ELSE tr.best
     IN IF tr.save
          THEN /\ tr' = SaveModel([tr EXCEPT !.pc = "stop", !.best = best,
                                             !.saves = tr.saves + 1])
               /\ models' = [models EXCEPT ![tr.run] = ModelFile(tr.w)]
               /\ UNCHANGED <<disk, nwrites>>
          ELSE /\ tr' = To([tr EXCEPT !.pc = "stop", !.best = best, !.evalMode = TRUE],
                           tr.device)
               /\ disk' = [disk EXCEPT ![tr.run][key] =
                             File(ProbsOf(tr.w, "test", LimIds("sst", tr.lim)))]
               /\ nwrites' = [nwrites EXCEPT ![tr.run][key] = @ + 1]
               /\ UNCHANGED models
  /\ UNCHANGED <<seeds, ldr, stack, ret, nsetup, nfwd, last, data, batch>>

\* lines 84-87: the new best epoch, and save_model or generate_probs
Improve ==
  /\ tr.pc = "improve"
  /\ LET key == <<"sst", "test">> IN
     IF Improved(tr.perf.acc, tr.best)
       THEN IF tr.save
              THEN /\ tr' = SaveModel([tr EXCEPT !.pc = "stop",
                                                 !.best = <<tr.epoch, tr.perf.loss, tr.perf.acc>>,
                                                 !.saves = tr.saves + 1])
                   /\ models' = [models EXCEPT ![tr.run] = ModelFile(tr.w)]
                   /\ UNCHANGED <<disk, nwrites>>
              ELSE /\ tr' = To([tr EXCEPT !.pc = "stop",
                                          !.best = <<tr.epoch, tr.perf.loss, tr.perf.acc>>,
                                          !.evalMode = TRUE],
                               tr.device)
                   /\ disk' = [disk EXCEPT ![tr.run][key] =
                                 File(ProbsOf(tr.w, "test", LimIds("sst", tr.lim)))]
                   /\ nwrites' = [nwrites EXCEPT ![tr.run][key] = @ + 1]
                   /\ UNCHANGED models
       ELSE /\ tr' = [tr EXCEPT !.pc = "stop"]
            /\ UNCHANGED <<disk, models, nwrites>>
  /\ UNCHANGED <<seeds, ldr, stack, ret, nsetup, nfwd, last, data, batch>>

\* mutant: one more epoch of patience
StopNowLate(epoch, best) == epoch - best[1] > Patience

\* line 89: epoch - best_epoch[0] >= 3
StopNow(epoch, best) == epoch - best[1] >= Patience

\* lines 89-90 and the step of range(args.epochs)
StopCheck ==
  /\ tr.pc = "stop"
  /\ tr' = IF StopNow(tr.epoch, tr.best) \/ tr.epoch + 1 >= tr.epochs
             THEN [tr EXCEPT !.pc = "end"]
             ELSE [tr EXCEPT !.pc = "train", !.epoch = tr.epoch + 1]
  /\ UNCHANGED <<disk, models, seeds, ldr, stack, ret, nsetup, nwrites, nfwd, last, data, batch>>

\* lines 92-93: log the best epoch, return test_perf (unbound when no epoch ran);
\* the locals end with the call, the object keeps its model
TrainEnd ==
  /\ tr.pc = "end"
  /\ ret' = IF tr.epochs > 0 THEN Value("perf", tr.test_perf)
                             ELSE Error("UnboundLocalError")
  /\ tr' = [tr EXCEPT !.pc = "done", !.perf = Unbound, !.test_perf = Unbound,
                      !.ws = <<>>, !.epoch = 0, !.best = <<-1, InitBestLoss, 0>>,
                      !.epochs = 0, !.save = FALSE, !.lim = 0, !.saves = 0]
  /\ UNCHANGED <<disk, models, seeds, ldr, stack, nsetup, nwrites, nfwd, last, data, batch>>

TrainNext ==
  \/ \E epochs \in 0..MaxEpochs, save \in BOOLEAN, lim \in 1..NumEx :
       TrainCall(epochs, save, lim)
  \/ TrainPass
  \/ DevEval
  \/ TestEval
  \/ Improve
  \/ StopCheck
  \/ TrainEnd

Init ==
  /\ \E dirs \in [Runs -> DirKinds] :
       /\ UpToRenaming(dirs)
       /\ models = [r \in Runs |-> DirModel(dirs[r])]
       /\ disk = [r \in Runs |->
                    [k \in Keys |-> IF k[2] = "test" THEN DirTest(dirs[r]) ELSE NoFile]]
  /\ seeds = <<>>
  /\ ldr = [r \in Runs |-> NoLoader]
  /\ stack = <<>>
  /\ ret = NoRet
  /\ tr = TrainerOff
  /\ nsetup = [r \in Runs |-> 0]
  /\ nwrites = [r \in Runs |-> [k \in Keys |-> 0]]
  /\ nfwd = [r \in Runs |-> 0]
  /\ last = [r \in Runs |-> [k \in Keys |-> NoRet]]
  /\ data = FixedData
  /\ batch = NoBatch

Next ==
  \/ Resume
  \/ NewEnsembleLoader
  \/ LoaderNext
  \/ EnsNext

Spec == Init /\ [][Next]_vars

\* One run directory from its creation: the Trainer is constructed on a new
\* directory, train runs once, then loaders are opened on the directories.
InitTrain ==
  /\ models = [r \in Runs |-> NoModel]
  /\ disk = [r \in Runs |-> [k \in Keys |-> NoFile]]
  /\ seeds = <<>>
  /\ ldr = [r \in Runs |-> NoLoader]
  /\ stack = <<>>
  /\ ret = NoRet
  /\ tr = TrainerNew
  /\ nsetup = [r \in Runs |-> 0]
  /\ nwrites = [r \in Runs |-> [k \in Keys |-> 0]]
  /\ nfwd = [r \in Runs |-> 0]
  /\ last = [r \in Runs |-> [k \in Keys |-> NoRet]]
  /\ data = FixedData
  /\ batch = NoBatch

NextTrain ==
  \/ TrainNext
  \/ Resume
  \/ NewEnsembleLoader
  \/ LoaderNext

SpecTrain == InitTrain /\ [][NextTrain]_vars

\* ------------------------------------------------------------- Trainer.model_output
IgnoreIndex == -100       \* the label F.cross_entropy and the counts leave out
BatchLabels == {IgnoreIndex, 0, 1}
LogitVecs == {<<0, 1>>, <<1, 0>>, <<1, 1>>}

\* tensor[mask]: the entries of t at the positions where mask holds, in order
RECURSIVE Masked(_, _, _)
Masked(t, mask, n) ==
  IF n = 0 THEN <<>>
  ELSE IF mask[n] THEN Append(Masked(t, mask, n - 1), t[n]) ELSE Masked(t, mask, n - 1)

\* torch.sum of a tensor of booleans
RECURSIVE SumBool(_, _)
SumBool(t, n) == IF n = 0 THEN 0 ELSE SumBool(t, n - 1) + (IF t[n] THEN 1 ELSE 0)

\* mutant: every position of the batch is counted
NumPredsAll(labels) == Len(labels)

\* torch.sum(batch.labels != -100).item()
NumPreds(labels) ==
  SumBool([i \in 1..Len(labels) |-> labels[i] # IgnoreIndex], Len(labels))

\* the counts model_output returns for batch b, b.y being the model's logits on it
ModelOutput(b) ==
  LET hits == [i \in 1..Len(b.labels) |-> Argmax(b.y[i]) = b.labels[i]]
      keep == [i \in 1..Len(b.labels) |-> b.labels[i] # IgnoreIndex]
      kept == Masked(hits, keep, Len(b.labels))
  IN [y |-> b.y, hits |-> SumBool(kept, Len(kept)), num_preds |-> NumPreds(b.labels)]

\* one call of model_output on the batch, on a Trainer that has no bias attribute
CallModelOutput ==
  /\ Idle
  /\ batch # NoBatch
  /\ ret' = Value("output", ModelOutput(batch))
  /\ UNCHANGED <<disk, models, seeds, ldr, stack, tr, nsetup, nwrites, nfwd, last, data, batch>>

\* model_output on any small batch.
InitOutput ==
  /\ models = [r \in Runs |-> NoModel]
  /\ disk = [r \in Runs |-> [k \in Keys |-> NoFile]]
  /\ seeds = <<>>
  /\ ldr = [r \in Runs |-> NoLoader]
  /\ stack = <<>>
  /\ ret = NoRet
  /\ tr = TrainerOff
  /\ nsetup = [r \in Runs |-> 0]
  /\ nwrites = [r \in Runs |-> [k \in Keys |-> 0]]
  /\ nfwd = [r \in Runs |-> 0]
  /\ last = [r \in Runs |-> [k \in Keys |-> NoRet]]
  /\ data = FixedData
  /\ \E n \in 1..MaxBsz :
       batch \in [labels : [1..n -> BatchLabels], y : [1..n -> LogitVecs]]

NextOutput ==
  \/ CallModelOutput
  \/ Resume

SpecOutput == InitOutput /\ [][NextOutput]_vars

\* The static loaders on any small data set.
InitData ==
  /\ models = [r \in Runs |-> NoModel]
  /\ disk = [r \in Runs |-> [k \in Keys |-> NoFile]]
  /\ seeds = <<>>
  /\ ldr = [r \in Runs |-> NoLoader]
  /\ stack = <<>>
  /\ ret = NoRet
  /\ tr = TrainerOff
  /\ nsetup = [r \in Runs |-> 0]
  /\ nwrites = [r \in Runs |-> [k \in Keys |-> 0]]
  /\ nfwd = [r \in Runs |-> 0]
  /\ last = [r \in Runs |-> [k \in Keys |-> NoRet]]
  /\ data \in [DataNames -> SplitsUpTo(1) \X SplitsUpTo(MaxSplit) \X SplitsUpTo(MaxSplit)]
  /\ batch = NoBatch

NextData ==
  \/ DataNext
  \/ Resume

SpecData == InitData /\ [][NextData]_vars

\* ------------------------------------------------------------- claims
LoaderState == <<disk, models, ldr, nsetup, nwrites, nfwd>>

\* a call of SystemLoader.load_probs is being entered by this step
Entering == Len(stack') = Len(stack) + 1 /\ Top'.op = "load_probs"

\* C1: a load_probs call that finds the record of (dataset, split) in the run
\* directory goes straight to reading it: the step that returns hands back the
\* persisted record and leaves files, loader attributes and the counts of
\* setups, writes and forward passes as they were; constructing the loaders
\* sets nothing up; a setup only happens inside a load_probs that missed.
C1_CacheHitUntouched ==
  [][/\ (Entering /\ disk[Top'.r][Top'.k].exists) =>
          (Top'.pc = "load" /\ ~Top'.miss /\ UNCHANGED LoaderState)
     /\ (Running("load_probs", "load") /\ disk[Top.r][Top.k].exists) =>
          (ret' = Value("probs", disk[Top.r][Top.k].rec) /\ UNCHANGED LoaderState)
     /\ (~Loaded /\ Loaded') =>
          (UNCHANGED <<disk, models, nsetup, nwrites, nfwd>>
           /\ \A r \in Runs : ldr'[r].helpers = "unset")
     /\ (nsetup' # nsetup \/ ldr' # ldr) =>
          (stack # <<>> /\ Top.op = "load_probs" /\ Top.miss
           /\ Top.pc \in {"setup", "probs"} /\ ~disk[Top.r][Top.k].exists)
    ]_vars

\* a hit has returned the record training left, and the loader of that run has
\* set nothing up, written nothing and made no forward pass
C1_Witness ==
  /\ stack = <<>> /\ ret.kind = "probs"
  /\ \E r \in Runs, k \in Keys :
       /\ last[r][k] = ret /\ disk[r][k].exists /\ ret.val = disk[r][k].rec
       /\ nwrites[r][k] = 0 /\ nsetup[r] = 0 /\ nfwd[r] = 0
       /\ ldr[r].helpers = "unset"

\* C2: set_up_helpers runs at most once on each SystemLoader.
C2_SetupAtMostOnce == \A r \in Runs : nsetup[r] <= 1

\* C3: on a miss the record is written only by the save step that follows a
\* complete pass, one forward pass per example in dataset order; what is
\* written is the whole record; the call has not returned when it is written,
\* and when it returns the file exists, holds exactly the returned mapping and
\* has one entry per example id of the split.
C3_WriteAfterFullInference ==
  [][/\ \A r \in Runs, k \in Keys :
          (disk'[r][k] # disk[r][k] \/ nwrites'[r][k] # nwrites[r][k]) =>
             /\ Running("load_probs", "save") /\ Top.r = r /\ Top.k = k /\ Top.miss
             /\ Top.acc = SplitIds(k[1], k[2])
             /\ disk'[r][k] = File(ProbsOf(ldr[r].w, k[2], SplitIds(k[1], k[2])))
             /\ nwrites'[r][k] = nwrites[r][k] + 1
             /\ stack' # <<>> /\ Top'.op = "load_probs" /\ Top'.pc = "load"
     /\ (Running("load_probs", "load") /\ Top.miss) =>
          /\ ret'.kind = "probs"
          /\ disk'[Top.r][Top.k].exists
          /\ ret'.val = disk'[Top.r][Top.k].rec
          /\ DOMAIN ret'.val = Range(SplitIds(Top.k[1], Top.k[2]))
    ]_vars

\* a miss has written the record once and returned it
C3_Witness ==
  /\ stack = <<>> /\ ret.kind = "probs"
  /\ \E r \in Runs, k \in Keys :
       /\ last[r][k] = ret /\ nwrites[r][k] = 1 /\ nfwd[r] >= NumEx
       /\ disk[r][k] = File(ret.val)
       /\ DOMAIN ret.val = 1..NumEx

\* C4: a load_probs call for a (dataset, split) for which an earlier load_probs
\* call has returned a record takes the hit path (no setup, no forward pass, no
\* write) and returns that same record.
C4_Idempotent ==
  [][/\ (Entering /\ last[Top'.r][Top'.k].kind = "probs") =>
          (Top'.pc = "load" /\ ~Top'.miss)
     /\ (Running("load_probs", "load") /\ last[Top.r][Top.k].kind = "probs") =>
          (ret' = last[Top.r][Top.k] /\ UNCHANGED LoaderState)
     /\ (stack # <<>> /\ Top.op = "load_probs" /\ last[Top.r][Top.k].kind = "probs") =>
          Top.pc = "load"
    ]_vars

\* the second call is about to return, after a first call that missed and wrote
C4_Witness ==
  /\ Running("load_probs", "load") /\ ~Top.miss
  /\ last[Top.r][Top.k].kind = "probs"
  /\ nwrites[Top.r][Top.k] = 1
  /\ last[Top.r][Top.k].val = disk[Top.r][Top.k].rec

TestKey == <<"sst", "test">>
InEpoch == {"train", "dev", "test", "improve", "stop"}

\* C5 as stated: every record file is written at most once, whatever operations run
C5_WrittenOnce == \A r \in Runs, k \in Keys : nwrites[r][k] <= 1

\* C5 amended: a record file is written only (a) by the save step of a
\* SystemLoader.load_probs that missed, when no file exists for that (dataset,
\* split), so a loader never replaces a record and writes each at most once, or
\* (b) by Trainer.train with the save flag off, which writes the test record in
\* every strictly improving epoch and replaces the one of the earlier epoch.
C5_LoaderNeverOverwrites ==
  [][\A r \in Runs, k \in Keys :
       (disk'[r][k] # disk[r][k] \/ nwrites'[r][k] # nwrites[r][k]) =>
          /\ nwrites'[r][k] = nwrites[r][k] + 1
          /\ \/ /\ Running("load_probs", "save") /\ Top.r = r /\ Top.k = k
                /\ ~disk[r][k].exists
                /\ nwrites[r][k] = 0
             \/ /\ tr.pc = "improve" /\ ~tr.save /\ r = tr.run /\ k = TestKey
                /\ tr.perf.acc > tr.best[3]
                /\ stack = <<>>
    ]_vars

\* training rewrote the test record, and a later load_probs returned it untouched
C5_Witness ==
  /\ stack = <<>> /\ ret.kind = "probs"
  /\ nwrites[TrainRun][TestKey] >= 2
  /\ last[TrainRun][TestKey] = ret
  /\ disk[TrainRun][TestKey] = File(ret.val)

\* C6: in the improvement step of an epoch, if that epoch's dev accuracy is
\* strictly above the recorded best, best_epoch becomes (epoch, dev loss, dev
\* accuracy) and exactly one artifact is written: the 'base' checkpoint when
\* args.save, else the test record, never both; otherwise best_epoch stays and
\* nothing is written.  No other step of train touches best_epoch or the files.
C6_ImprovementRule ==
  [][/\ tr.pc = "improve" =>
          /\ tr.perf = DevPerf(tr.ws[tr.epoch + 1])
          /\ IF tr.perf.acc > tr.best[3]
               THEN /\ tr'.best = <<tr.epoch, tr.perf.loss, tr.perf.acc>>
                    /\ IF tr.save
                         THEN /\ tr'.saves = tr.saves + 1
                              /\ models' = [models EXCEPT ![tr.run] = ModelFile(tr.w)]
                              /\ UNCHANGED <<disk, nwrites>>
                         ELSE /\ tr'.saves = tr.saves
                              /\ nwrites' = [nwrites EXCEPT ![tr.run][TestKey] = @ + 1]
                              /\ disk'[tr.run][TestKey].exists
                              /\ \A k \in Keys \ {TestKey} : disk'[tr.run][k] = disk[tr.run][k]
                              /\ UNCHANGED models
               ELSE /\ tr'.best = tr.best /\ tr'.saves = tr.saves
                    /\ UNCHANGED <<disk, models, nwrites>>
     /\ tr.pc \in {"train", "dev", "test", "stop"} =>
          (tr'.best = tr.best /\ tr'.saves = tr.saves /\ UNCHANGED <<disk, models, nwrites>>)
    ]_vars

\* a second strict improvement has been saved to the checkpoint, no record written
C6_Witness ==
  /\ tr.pc = "stop" /\ tr.save /\ tr.saves = 2 /\ tr.best[1] = tr.epoch
  /\ tr.epoch >= 2
  /\ models[tr.run] = ModelFile(tr.w)
  /\ nwrites[tr.run][TestKey] = 0

\* dev accuracies of the epochs run so far
DevAccs == [e \in 1..Len(tr.ws) |-> DevAcc(tr.ws[e])]
ExampleAccs == <<50, 60, 55, 55, 55>>

\* C7: a pass of epoch e > 0 runs only if epoch e - 1 did not meet
\* e - 1 - best_epoch.epoch >= 3 and e is below args.epochs; the loop is left
\* right after the first epoch that meets the condition or after epoch
\* args.epochs - 1, with one training pass and two evaluation passes per epoch
\* run and none after; with dev accuracies 0.5, 0.6, 0.55, 0.55, 0.55 it is
\* left after epoch 4 with best_epoch = (1, loss of epoch 1, 0.6).
C7_EarlyStopping ==
  [][/\ (tr.pc \in {"train", "dev", "test", "improve"} /\ tr.epoch > 0) =>
          (tr.epoch - 1 - tr.best[1] < Patience /\ tr.epoch < tr.epochs)
     /\ tr.pc \in InEpoch =>
          /\ tr.epoch < tr.epochs
          /\ tr.passes = (IF tr.pc = "train" THEN tr.epoch ELSE tr.epoch + 1)
     /\ tr.pc = "stop" =>
          (tr'.pc = "end" <=>
             (tr.epoch - tr.best[1] >= Patience \/ tr.epoch = tr.epochs - 1))
     /\ (tr.pc = "end" /\ tr.epochs > 0) =>
          /\ tr.epoch - tr.best[1] >= Patience \/ tr.epoch = tr.epochs - 1
          /\ tr.passes = tr.epoch + 1 /\ tr.evals = 2 * (tr.epoch + 1)
     /\ (tr.pc = "end" /\ tr.epochs = 0) => (tr.passes = 0 /\ tr.evals = 0)
     /\ tr.pc \in {"end", "done"} =>
          (tr'.pc \in {"end", "done"} /\ tr'.passes = tr.passes /\ tr'.evals = tr.evals)
     /\ (tr.pc \in {"stop", "end"} /\ Len(tr.ws) >= 5
         /\ SubSeq(DevAccs, 1, 5) = ExampleAccs) =>
          /\ tr.pc = "end" \/ tr'.pc = "end"
          /\ tr.epoch = 4
          /\ tr.best = <<1, DevPerf(tr.ws[2]).loss, 60>>
    ]_vars

\* the example run, stopped by patience with an epoch still to go
C7_Witness ==
  /\ tr.pc = "end" /\ tr.epochs = 6 /\ tr.epoch = 4
  /\ DevAccs = ExampleAccs
  /\ tr.best[1] = 1

\* C8: for every args.epochs, train returns the test performance computed in
\* the last epoch run.
C8_ReturnsFinalTestPerf ==
  (tr.pc = "done" /\ ~Loaded /\ ret # NoRet) =>
     (ret.kind = "perf" /\ ret.val = TestPerf(tr.w))

\* the ids of the records the seeds hold for key k, and whether they differ
SeedRec(j, k) == disk[seeds[j]][k].rec
SeedsDiffer(k) ==
  \E i \in 1..Len(seeds), j \in 1..Len(seeds) : DOMAIN SeedRec(i, k) # DOMAIN SeedRec(j, k)

\* C9: when the assertion of EnsembleLoader.load_probs is reached it looks at
\* the record of every seed, in the order of self.seeds; if any two seeds
\* differ in their id sets the call ends there with an error, whichever seed
\* is first, and an ensemble is only ever returned over seeds with equal id sets.
C9_ConsistencyCheck ==
  [][/\ Running("ens_load_probs", "check") =>
          /\ Len(Top.acc) = Len(seeds)
          /\ \A j \in 1..Len(seeds) : Top.acc[j] = SeedRec(j, Top.k)
          /\ SeedsDiffer(Top.k) => (ret'.kind = "error" /\ stack' = <<>>)
     /\ (ret'.kind = "ensemble" /\ ret.kind # "ensemble") =>
          (Running("ens_load_probs", "mean") /\ ~SeedsDiffer(Top.k))
    ]_vars

\* the assertion failed although the first seed's ids are all covered by the second
C9_Witness ==
  /\ stack = <<>> /\ ret = Error("assert")
  /\ \E k \in Keys :
       /\ \A j \in 1..Len(seeds) : disk[seeds[j]][k].exists
       /\ DOMAIN SeedRec(1, k) \subseteq DOMAIN SeedRec(2, k)
       /\ DOMAIN SeedRec(1, k) # DOMAIN SeedRec(2, k)

RECURSIVE SeedSum(_, _, _, _)
SeedSum(k, id, c, n) == IF n = 0 THEN 0 ELSE SeedSum(k, id, c, n - 1) + SeedRec(n, k)[id][c]

\* C10: the ensemble returned has exactly the ids the seeds share, and each
\* entry times the number of seeds is the sum of the seeds' entries for that
\* id; two seeds with [0.2, 0.8] and [0.6, 0.4] give [0.4, 0.6].
C10_EnsembleMean ==
  [][Running("ens_load_probs", "mean") =>
       /\ ret'.kind = "ensemble"
       /\ \A j \in 1..Len(seeds) : DOMAIN ret'.val = DOMAIN SeedRec(j, Top.k)
       /\ \A id \in DOMAIN ret'.val :
            /\ Len(ret'.val[id]) = Len(SeedRec(1, Top.k)[id])
            /\ \A c \in 1..Len(ret'.val[id]) :
                 /\ ret'.val[id][c].den > 0
                 /\ ret'.val[id][c].num * Len(seeds) =
                      ret'.val[id][c].den * SeedSum(Top.k, id, c, Len(seeds))
            /\ (Len(seeds) = 2
                /\ {SeedRec(1, Top.k)[id], SeedRec(2, Top.k)[id]} = {<<2, 8>>, <<6, 4>>}) =>
                 ret'.val[id] = <<[num |-> 4, den |-> 1], [num |-> 6, den |-> 1]>>
    ]_vars

\* the ensemble of the example has been returned
C10_Witness ==
  /\ stack = <<>> /\ ret.kind = "ensemble" /\ Len(seeds) = 2
  /\ \E id \in DOMAIN ret.val :
       /\ id \in DOMAIN SeedRec(1, TestKey) /\ id \in DOMAIN SeedRec(2, TestKey)
       /\ SeedRec(1, TestKey)[id] = <<2, 8>> /\ SeedRec(2, TestKey)[id] = <<6, 4>>
       /\ ret.val[id] = <<[num |-> 4, den |-> 1], [num |-> 6, den |-> 1]>>

\* what EnsembleLoader.load_probs makes of the seeds' records for key k when
\* self.seeds is the list p
OutcomeIn(p, k) ==
  LET seed_probs == [j \in 1..Len(p) |-> disk[p[j]][k].rec]
  IN IF KeysAgree(seed_probs) THEN Value("ensemble", Ensemble(seed_probs))
                              ELSE Error("assert")

\* C11: once every seed's record is in hand, the outcome of
\* EnsembleLoader.load_probs does not depend on the order of the seed list:
\* for every permutation of the seeds the assertion passes or fails alike and,
\* where it passes, the ids and the exact averages are the same; the call ends
\* with that outcome.
C11_SeedOrderIndependent ==
  [][(stack # <<>> /\ Top.op = "ens_load_probs" /\ Top.pc \in {"check", "mean"}) =>
       \A p \in Perms(Runs) :
         /\ OutcomeIn(p, Top.k) = OutcomeIn(seeds, Top.k)
         /\ Len(stack') < Len(stack) => ret' = OutcomeIn(p, Top.k)
    ]_vars

\* an ensemble has been returned over seeds, listed in the other order, whose
\* records differ in their vectors
C11_Witness ==
  /\ stack = <<>> /\ ret.kind = "ensemble"
  /\ Len(seeds) >= 2 /\ seeds[1] > seeds[2]
  /\ \E k \in Keys :
       /\ \A j \in 1..Len(seeds) : disk[seeds[j]][k].exists
       /\ DOMAIN ret.val = DOMAIN SeedRec(1, k)
       /\ \E id \in DOMAIN ret.val : SeedRec(1, k)[id] # SeedRec(2, k)[id]

\* j is an index, counted from 0, of a largest entry of the integer vector v
IsArgmax(v, j) == j \in 0..(Len(v) - 1) /\ \A l \in 1..Len(v) : v[l] <= v[j + 1]
\* the same for a vector of exact quotients
IsArgmaxMean(v, j) ==
  /\ j \in 0..(Len(v) - 1)
  /\ \A l \in 1..Len(v) : v[l].num * v[j + 1].den <= v[j + 1].num * v[l].den
\* the labels SystemLoader.load_preds derives from a record
OwnPreds(rec) == [id \in DOMAIN rec |-> Argmax(rec[id])]

\* C12: load_preds returns a label for exactly the ids load_probs returned on
\* the same loader, each the index from 0 of the largest entry of that id's
\* vector: on a SystemLoader the vector cached in the run directory, on an
\* EnsembleLoader the averaged vector; [0.1, 0.7, 0.2] gives 1.
C12_PredsAreArgmax ==
  [][/\ Running("load_preds", "argmax") =>
          /\ ret = Value("probs", disk[Top.r][Top.k].rec)
          /\ ret'.kind = "preds"
          /\ DOMAIN ret'.val = DOMAIN ret.val
          /\ \A id \in DOMAIN ret.val : IsArgmax(ret.val[id], ret'.val[id])
     /\ Running("ens_load_preds", "argmax") =>
          /\ ret = OutcomeIn(seeds, Top.k) /\ ret.kind = "ensemble"
          /\ ret'.kind = "preds"
          /\ DOMAIN ret'.val = DOMAIN ret.val
          /\ \A id \in DOMAIN ret.val : IsArgmaxMean(ret.val[id], ret'.val[id])
     /\ (ret'.kind = "preds" /\ ret.kind # "preds") =>
          (stack # <<>> /\ Top.op \in {"load_preds", "ens_load_preds"} /\ Top.pc = "argmax")
     /\ Argmax(<<1, 7, 2>>) = 1
    ]_vars

\* the labels of the averaged vectors have been returned, and they are not
\* the labels some seed's own record gives
C12_Witness ==
  /\ stack = <<>> /\ ret.kind = "preds"
  /\ \E k \in Keys :
       /\ OutcomeIn(seeds, k).kind = "ensemble"
       /\ \A j \in 1..Len(seeds) : disk[seeds[j]][k].exists
       /\ DOMAIN ret.val = DOMAIN OutcomeIn(seeds, k).val
       /\ \A id \in DOMAIN ret.val : IsArgmaxMean(OutcomeIn(seeds, k).val[id], ret.val[id])
       /\ \E j \in 1..Len(seeds) : ret.val # OwnPreds(SeedRec(j, k))
       /\ \A j \in 1..Len(seeds) : last[seeds[j]][k] = Value("probs", SeedRec(j, k))

\* C13: load_seed_preds returns one labelling per seed, in the order of
\* self.seeds, the i-th being the argmax labels of seed i's own record; no
\* EnsembleLoader.load_probs runs inside it, so nothing is averaged and the
\* key sets are not compared, and it returns also when the seeds' id sets differ.
C13_SeedPredsPerSeed ==
  [][(stack # <<>> /\ stack[1].op = "load_seed_preds") =>
       /\ \A j \in 1..Len(stack') : stack'[j].op \in {"load_seed_preds", "load_preds", "load_probs"}
       /\ ret' # Error("assert") /\ ret'.kind # "ensemble"
       /\ Running("load_seed_preds", "collect") =>
            /\ ret = Value("preds", OwnPreds(SeedRec(Top.i, Top.k)))
            /\ Len(Top.acc) = Top.i - 1
            /\ \A j \in 1..(Top.i - 1) : Top.acc[j] = OwnPreds(SeedRec(j, Top.k))
            /\ Top.i = Len(seeds) =>
                 /\ stack' = <<>>
                 /\ ret' = Value("seed_preds",
                                 [j \in 1..Len(seeds) |-> OwnPreds(SeedRec(j, Top.k))])
    ]_vars

\* the list has been returned over seeds whose records cover different ids
C13_Witness ==
  /\ stack = <<>> /\ ret.kind = "seed_preds" /\ Len(ret.val) = Len(seeds)
  /\ \E k \in Keys :
       /\ SeedsDiffer(k)
       /\ \A j \in 1..Len(seeds) :
            disk[seeds[j]][k].exists /\ ret.val[j] = OwnPreds(SeedRec(j, k))
       /\ ret.val[1] # ret.val[2]

RECURSIVE Concatenation(_, _, _)
\* the first n of the named splits of the data set, one after the other
Concatenation(data_name, splits, n) ==
  IF n = 0 THEN <<>>
  ELSE Concatenation(data_name, splits, n - 1) \o data[data_name][SplitIndex(splits[n])]

\* C14: load_labels and load_inputs return, for a single split name, that
\* split's labels / texts indexed 0..(|split|-1), and for an underscore-joined
\* mode such as 'dev_test' those of the listed splits one after the other,
\* indexed 0..(|dev|+|test|-1).
C14_SplitModeConcatenation ==
  [][/\ Running("load_labels", "body") =>
          ret' = Value("labels",
                       Enumerate(Concatenation(Top.k[1], StrSplit(Top.k[2]),
                                               Len(StrSplit(Top.k[2]))), "label"))
     /\ Running("load_inputs", "body") =>
          ret' = Value("inputs",
                       Enumerate(Concatenation(Top.k[1], StrSplit(Top.k[2]),
                                               Len(StrSplit(Top.k[2]))), "text"))
    ]_vars

\* C15: a load_probs call that misses on a run directory without models/base.pt
\* goes to set_up_helpers, which ends the call, and every call around it, with
\* the load error; no forward pass is made and no record is written: the files
\* are as before and the record of that (dataset, split) still does not exist.
C15_FailFastOnMissingWeights ==
  [][/\ (Entering /\ ~disk[Top'.r][Top'.k].exists /\ ~models[Top'.r].exists) =>
          (Top'.pc = "setup" /\ UNCHANGED <<disk, models, nwrites, nfwd>>)
     /\ (Running("load_probs", "setup") /\ ~models[Top.r].exists) =>
          /\ ret' = Error("load_model")
          /\ stack' = <<>>
          /\ UNCHANGED <<disk, models, nwrites, nfwd>>
          /\ ~disk'[Top.r][Top.k].exists
    ]_vars

\* the call failed on a directory that training with the save flag off left
\* with the test record only: the dev record is still absent, nothing ran
C15_Witness ==
  /\ stack = <<>> /\ ret = Error("load_model")
  /\ \E r \in Runs :
       /\ ~models[r].exists /\ ldr[r].helpers = "partial"
       /\ disk[r][TestKey].exists /\ nwrites[r][TestKey] = 0
       /\ ~disk[r][<<"sst", "dev">>].exists /\ nwrites[r][<<"sst", "dev">>] = 0
       /\ nfwd[r] = 0

\* the artifact Trainer.train keeps for the run: the checkpoint or the test record
Written == IF tr.save THEN tr.saves > 0 ELSE nwrites[tr.run][TestKey] > 0
ArtifactOf(w) ==
  IF tr.save THEN models[tr.run] = ModelFile(w)
             ELSE disk[tr.run][TestKey] = File(ProbsOf(w, "test", LimIds("sst", tr.lim)))

\* C16: from the first epoch to the return of train, the run has written its
\* artifact ('base' checkpoint with args.save, test record without) exactly
\* when best_epoch[0] >= 0; the artifact then holds the parameters as they were
\* after the training pass of epoch best_epoch[0]; a write happens only in the
\* improvement step of the epoch that becomes best_epoch[0], so an epoch that
\* does not improve leaves the artifact alone; only one kind is ever written.
C16_ArtifactTracksBestEpoch ==
  [][tr.pc \in InEpoch \cup {"end"} =>
       /\ Written <=> tr.best[1] >= 0
       /\ tr.best[1] >= 0 => ArtifactOf(tr.ws[tr.best[1] + 1])
       /\ tr.save => (nwrites[tr.run][TestKey] = 0 /\ ~disk[tr.run][TestKey].exists)
       /\ ~tr.save => (tr.saves = 0 /\ ~models[tr.run].exists)
       /\ (models' # models \/ disk' # disk \/ nwrites' # nwrites) =>
            /\ tr.pc = "improve"
            /\ tr.perf.acc > tr.best[3]
            /\ tr'.best[1] = tr.epoch
            /\ tr.w = tr.ws[tr.epoch + 1]
    ]_vars

\* train is about to return with the test record of epoch 1 in place, three
\* epochs after it, the parameters having moved on since
C16_Witness ==
  /\ tr.pc = "end" /\ ~tr.save /\ tr.best[1] = 1 /\ tr.epoch = 4
  /\ nwrites[tr.run][TestKey] = 2
  /\ tr.w # tr.ws[2]
  /\ disk[tr.run][TestKey] = File(ProbsOf(tr.ws[2], "test", LimIds("sst", tr.lim)))
  /\ disk[tr.run][TestKey] # File(ProbsOf(tr.w, "test", LimIds("sst", tr.lim)))

\* the model and the batcher of an object are both on the object's device,
\* which they are not before the first to(device)
Bound(obj) ==
  /\ obj.device = ArgsDevice
  /\ obj.modelDev = obj.device /\ obj.batcherDev = obj.device

InEnsembleCall == stack # <<>> /\ stack[1].op \in {"ens_load_probs", "load_seed_preds"}

\* C18: while EnsembleLoader.load_probs or load_seed_preds runs, the only file
\* that changes is the record of the requested (dataset, split) in the
\* directory of a seed that had none, written by that seed's own load_probs;
\* the assertion is evaluated when every seed's record exists, so when the
\* call returns, or ends on the assertion, every seed directory holds the
\* record; a call made when all records exist makes no setup, no forward pass
\* and no write, and the ensemble it returns is the average of those records.
C18_EnsembleSideEffects ==
  [][InEnsembleCall =>
       LET k == stack[1].k IN
       /\ models' = models
       /\ \A r \in Runs, k2 \in Keys :
            (disk'[r][k2] # disk[r][k2] \/ nwrites'[r][k2] # nwrites[r][k2]) =>
               /\ k2 = k /\ ~disk[r][k].exists /\ disk'[r][k].exists
               /\ Top.op = "load_probs" /\ Top.r = r /\ Top.k = k
       /\ Running("ens_load_probs", "check") =>
            \A j \in 1..Len(seeds) : disk[seeds[j]][k].exists
       /\ (Len(stack') = 0 /\ ret'.kind \in {"ensemble", "seed_preds"}) =>
            \A j \in 1..Len(seeds) : disk'[seeds[j]][k].exists
       /\ ret' = Error("assert") =>
            \A j \in 1..Len(seeds) : disk'[seeds[j]][k].exists
       /\ (\A j \in 1..Len(seeds) : disk[seeds[j]][k].exists) =>
            /\ UNCHANGED <<disk, nwrites, nfwd, nsetup>>
            /\ ret'.kind # "error" \/ ret' = Error("assert")
            /\ ret'.kind = "ensemble" => ret' = OutcomeIn(seeds, k)
    ]_vars

\* an ensemble has been returned for the dev split, whose record every seed
\* had to compute and write once for the call
C18_Witness ==
  /\ stack = <<>> /\ ret.kind = "ensemble"
  /\ \A r \in Runs :
       /\ disk[r][<<"sst", "dev">>].exists /\ nwrites[r][<<"sst", "dev">>] = 1
       /\ nsetup[r] = 1 /\ nfwd[r] = NumEx
       /\ ~disk[r][TestKey].exists
  /\ ret = OutcomeIn(seeds, <<"sst", "dev">>)

\* positions of the batch whose label is not the sentinel
Counted == {i \in 1..Len(batch.labels) : batch.labels[i] # -100}

\* C19: model_output returns num_preds = the number of positions whose label
\* is not -100 and hits = the number of those positions where the argmax of
\* the logits equals the label, so 0 <= hits <= num_preds <= batch size.
C19_OutputAccounting ==
  ret.kind = "output" =>
    /\ ret.val.num_preds = Cardinality(Counted)
    /\ ret.val.hits = Cardinality({i \in Counted : Argmax(batch.y[i]) = batch.labels[i]})
    /\ 0 <= ret.val.hits /\ ret.val.hits <= ret.val.num_preds
    /\ ret.val.num_preds <= Len(batch.labels)

\* a batch of three with one sentinel label, one hit and one miss has been counted
C19_Witness ==
  /\ ret.kind = "output" /\ Len(batch.labels) = 3
  /\ \E i \in 1..3 : batch.labels[i] = -100
  /\ ret.val.hits = 1 /\ ret.val.num_preds = 2

\* epochs whose improvement step has run
Completed == IF tr.pc \in {"stop", "end"} THEN Len(tr.ws)
             ELSE IF tr.pc = "train" THEN tr.epoch ELSE Len(tr.ws) - 1
\* the largest of 0 and the dev accuracies of the completed epochs
BestAcc == CHOOSE a \in {0} \cup {DevAccs[e] : e \in 1..Completed} :
             \A e \in 1..Completed : DevAccs[e] <= a

\* C20: during train, after every completed epoch the recorded best accuracy
\* is the largest of 0 and the dev accuracies so far; it never decreases;
\* best_epoch[0] is the earliest epoch with that accuracy, or -1 with loss
\* 10000 while no epoch has had an accuracy above 0; the recorded loss is the
\* dev loss of that epoch.
C20_BestEpochTracker ==
  [][tr.pc \in InEpoch \cup {"end"} =>
       /\ tr.best[3] = BestAcc
       /\ IF BestAcc = 0
            THEN tr.best = <<-1, InitBestLoss, 0>>
            ELSE /\ tr.best[1] \in 0..(Completed - 1)
                 /\ DevAccs[tr.best[1] + 1] = BestAcc
                 /\ \A e \in 1..tr.best[1] : DevAccs[e] < BestAcc
                 /\ tr.best[2] = DevPerf(tr.ws[tr.best[1] + 1]).loss
       /\ tr'.pc \in InEpoch \cup {"end"} => tr'.best[3] >= tr.best[3]
    ]_vars

\* a later epoch tied with the best one and did not move it
C20_Witness ==
  /\ tr.pc = "stop" /\ tr.best[1] = 0 /\ tr.epoch = 2
  /\ DevAccs[1] = DevAccs[3] /\ DevAccs[2] < DevAccs[1]
  /\ tr.best = <<0, DevPerf(tr.ws[1]).loss, DevAccs[1]>> /\ tr.best[3] > 0

====
